---- MODULE Spec2Model ----
(***************************************************************************)
(* Priority-donating lock of pintos (threads/lock.c, lock.h).              *)
(*                                                                         *)
(* Threads and locks are numbered from 1; 0 is the NULL pointer.  A thread *)
(* that is not inside lock_acquire may call lock_acquire or lock_release   *)
(* on any lock whenever it runs: higher-priority threads may be asleep or  *)
(* blocked on something else, so any ready thread can be the running one   *)
(* at a call boundary.  Thread identities are interchangeable, so the      *)
(* base priorities are drawn in non-decreasing order of thread number.     *)
(*                                                                         *)
(* One step is one call of lock_acquire up to its return or its suspension *)
(* in semaphore_down, one call of lock_release, or the resumption of a     *)
(* woken waiter.  thread_preempt() yields only to a ready thread of higher *)
(* priority than the running one; it changes no field modelled here.       *)
(*                                                                         *)
(* Spec takes whole calls as steps.  SpecPreempt cuts the calls where the  *)
(* timer interrupt can switch threads, SpecContention lets the threads     *)
(* only acquire, and SpecCondvar adds the condition variable on top of the *)
(* lock.                                                                   *)
(***************************************************************************)
EXTENDS Integers, Sequences, FiniteSets, TLC

NumThreads == 5
NumLocks == 2
MaxPriority == 2
MaxCalls == 5

NULL == 0
LOCK_PRIORITY_INIT == -1

Threads == 1..NumThreads
Locks == 1..NumLocks
Priorities == 1..MaxPriority

VARIABLES
  holder,               \* lock->holder
  lock_priority,        \* lock->priority
  sema_value,           \* lock->semaphore.value
  sema_waiters,         \* lock->semaphore.waiters, in arrival order
  priority,             \* thread->priority (effective priority)
  base_priority,        \* thread->base_priority
  lock_waiting_on,      \* thread->lock_waiting_on
  priority_donor_locks, \* thread->priority_donor_locks, front first
  pc,                   \* where each thread is: "run", "blocked", "woken", "spin"
  arg,                  \* the lock argument of the lock_acquire a thread is inside
  held,                 \* locks a thread acquired and has not yet released
  panicked,             \* the kernel has stopped in PANIC
  last,                 \* the call that made the last step: <<what, thread, lock>>
  calls,                \* number of lock_acquire and lock_release calls made
  cv_waiters,           \* condvar->waiters: the threads inside condvar_wait, in arrival order
  cv_lock,              \* the lock argument of the condvar_wait a thread is inside
  frame                 \* the call a thread was interrupted in: statement reached,
                        \* lock argument, and the local variable holder (lock.c:122)

vars == <<holder, lock_priority, sema_value, sema_waiters, priority,
          base_priority, lock_waiting_on, priority_donor_locks, pc, arg,
          held, panicked, last, calls, cv_waiters, cv_lock, frame>>

condvarFields == <<cv_waiters, cv_lock>>

lockFields == <<holder, lock_priority, sema_value, sema_waiters>>
threadFields == <<priority, base_priority, lock_waiting_on, priority_donor_locks>>

Max(a, b) == IF a >= b THEN a ELSE b

RECURSIVE MaxOver(_, _, _)
MaxOver(S, f, default) ==
  IF S = {} THEN default
  ELSE LET x == CHOOSE y \in S : TRUE
       IN Max(f[x], MaxOver(S \ {x}, f, default))

SeqToSet(s) == {s[i] : i \in 1..Len(s)}

(* a thread that is not between two statements of a call *)
NoFrame == [at |-> "idle", lock |-> NULL, holder |-> NULL]

----------------------------------------------------------------------------
(* lock_init, and threads created with priority = base_priority, no donors *)
lock_init ==
  /\ holder = [l \in Locks |-> NULL]
  /\ lock_priority = [l \in Locks |-> LOCK_PRIORITY_INIT]
  /\ sema_value = [l \in Locks |-> 1]
  /\ sema_waiters = [l \in Locks |-> <<>>]

Init ==
  /\ lock_init
  /\ base_priority \in [Threads -> Priorities]
  /\ \A t \in Threads : t + 1 \in Threads => base_priority[t] <= base_priority[t + 1]
  /\ priority = base_priority
  /\ lock_waiting_on = [t \in Threads |-> NULL]
  /\ priority_donor_locks = [t \in Threads |-> <<>>]
  /\ pc = [t \in Threads |-> "run"]
  /\ arg = [t \in Threads |-> NULL]
  /\ held = [t \in Threads |-> {}]
  /\ panicked = FALSE
  /\ last = <<"init", NULL, NULL>>
  /\ calls = 0
  /\ cv_waiters = <<>>
  /\ cv_lock = [t \in Threads |-> NULL]
  /\ frame = [t \in Threads |-> NoFrame]

----------------------------------------------------------------------------
(* helpers of lock.c *)

lock_held_by_current_thread(t, l) == holder[l] = t

thread_get_priority(prio, t) == prio[t]

lock_priority_gt(lp, a, b) == lp[a] > lp[b]

find_lock(l, list) == \E i \in 1..Len(list) : list[i] = l

lock_remove_from_list(l, list) ==
  IF find_lock(l, list)
    THEN LET i == CHOOSE j \in 1..Len(list) :
                    list[j] = l /\ \A k \in 1..(j - 1) : list[k] # l
         IN SubSeq(list, 1, i - 1) \o SubSeq(list, i + 1, Len(list))
    ELSE list

(* list_insert_ordered: before the first element that the new one beats *)
list_insert_ordered(list, l, lp) ==
  LET beaten == {j \in 1..Len(list) : lock_priority_gt(lp, l, list[j])}
      i == IF beaten = {} THEN Len(list) + 1
           ELSE CHOOSE j \in beaten : \A k \in beaten : j <= k
  IN SubSeq(list, 1, i - 1) \o <<l>> \o SubSeq(list, i, Len(list))

(* The walk of trickle_priority_donation.  holder and lock_waiting_on do   *)
(* not change during the walk, so reaching a thread a second time means    *)
(* the while loop never ends; a lock without holder makes the loop write   *)
(* through a NULL thread pointer.                                          *)
RECURSIVE trickle_walk(_, _, _, _)
trickle_walk(lock_current, new_priority, prio, visited) ==
  IF lock_current = NULL
    THEN [priority |-> prio, outcome |-> "return"]
    ELSE LET thread_current == holder[lock_current]
         IN IF thread_current = NULL
              THEN [priority |-> prio, outcome |-> "null"]
              ELSE IF thread_current \in visited
                THEN [priority |-> prio, outcome |-> "loop"]
                ELSE trickle_walk(lock_waiting_on[thread_current], new_priority,
                                  [prio EXCEPT ![thread_current] = new_priority],
                                  visited \cup {thread_current})

trickle_priority_donation(initial_thread, new_priority) ==
  trickle_walk(lock_waiting_on[initial_thread], new_priority, priority, {})

thread_revoke_donated_priority(prio, t) ==
  [prio EXCEPT ![t] = base_priority[t]]

thread_update_donated_priority(prio, t, donors) ==
  IF donors # <<>>
    THEN [prio EXCEPT ![t] = lock_priority[Head(donors)]]
    ELSE prio

----------------------------------------------------------------------------
(* the semaphore collaborator (threads/semaphore.c) *)

(* semaphore_down: take the semaphore when value > 0, else queue and block. *)
(* A woken thread runs the same test again (while (value == 0) ...).        *)
semaphore_down(t, l) ==
  IF sema_value[l] > 0
    THEN /\ sema_value' = [sema_value EXCEPT ![l] = @ - 1]
         /\ pc' = [pc EXCEPT ![t] = "run"]
         /\ arg' = [arg EXCEPT ![t] = NULL]
         /\ UNCHANGED sema_waiters
    ELSE /\ sema_waiters' = [sema_waiters EXCEPT ![l] = Append(@, t)]
         /\ pc' = [pc EXCEPT ![t] = "blocked"]
         /\ arg' = [arg EXCEPT ![t] = l]
         /\ UNCHANGED sema_value

(* the waiter semaphore_up wakes: highest priority, earliest among equals *)
sema_wake_choice(waiters) ==
  LET i == CHOOSE j \in 1..Len(waiters) :
             /\ \A k \in 1..Len(waiters) : priority[waiters[k]] <= priority[waiters[j]]
             /\ \A k \in 1..(j - 1) : priority[waiters[k]] < priority[waiters[j]]
  IN i

semaphore_up(l) ==
  /\ sema_value' = [sema_value EXCEPT ![l] = @ + 1]
  /\ IF sema_waiters[l] = <<>>
       THEN UNCHANGED <<sema_waiters, pc>>
       ELSE LET i == sema_wake_choice(sema_waiters[l])
                w == sema_waiters[l][i]
            IN /\ sema_waiters' = [sema_waiters EXCEPT ![l] =
                     SubSeq(@, 1, i - 1) \o SubSeq(@, i + 1, Len(@))]
               /\ pc' = [pc EXCEPT ![w] = "woken"]

----------------------------------------------------------------------------
(* Symmetry.  A thread that is as it was created and a lock that is as     *)
(* lock_init left it are interchangeable with the others of their kind     *)
(* (same base priority for threads): nothing in lock.c looks at the        *)
(* identity of a thread or a lock.  Of several such threads or locks only  *)
(* the one with the smallest number makes or receives the next call.       *)
FreshThread(t) ==
  /\ pc[t] = "run"
  /\ priority[t] = base_priority[t]
  /\ priority_donor_locks[t] = <<>>
  /\ lock_waiting_on[t] = NULL
  /\ held[t] = {}
  /\ \A l \in Locks : holder[l] # t
  /\ cv_lock[t] = NULL
  /\ frame[t] = NoFrame

FreshLock(l) ==
  /\ holder[l] = NULL
  /\ lock_priority[l] = LOCK_PRIORITY_INIT
  /\ sema_value[l] = 1
  /\ sema_waiters[l] = <<>>
  /\ \A t \in Threads :
       /\ lock_waiting_on[t] # l
       /\ arg[t] # l
       /\ l \notin held[t]
       /\ ~find_lock(l, priority_donor_locks[t])
       /\ cv_lock[t] # l
       /\ frame[t].lock # l

Representative(t, l) ==
  /\ FreshThread(t) =>
       \A u \in Threads :
         (u < t /\ base_priority[u] = base_priority[t]) => ~FreshThread(u)
  /\ FreshLock(l) => \A k \in Locks : k < l => ~FreshLock(k)

----------------------------------------------------------------------------
(* the assertion placed after lock->holder = NULL *)
assertion_failure_late(what, t, l) ==
  /\ panicked' = TRUE
  /\ last' = <<what, NULL, NULL>>
  /\ holder' = [holder EXCEPT ![l] = NULL]
  /\ UNCHANGED <<lock_priority, sema_value, sema_waiters, threadFields, pc, arg, held>>

(* ASSERT (...) fails: the kernel panics where it stands *)
assertion_failure(what, t, l) ==
  /\ panicked' = TRUE
  /\ last' = <<what, NULL, NULL>>
  /\ UNCHANGED <<lockFields, threadFields, pc, arg, held>>

(* the free branch recording the caller's priority in the lock *)
acquire_free_marks(t, l) ==
  /\ lock_priority' = [lock_priority EXCEPT ![l] = priority[t]]
  /\ UNCHANGED <<priority, lock_waiting_on, priority_donor_locks>>

(* lock.c:118-119, the branch for a lock that nobody holds *)
acquire_free(t, l) ==
  UNCHANGED <<priority, lock_waiting_on, priority_donor_locks, lock_priority>>

(* lock.c:126, "Reinvoke donation" *)
reinvoke_lock_priority(prio, h, t) == prio[h]

(* lock.c:131 *)
donor_lock_priority(prio, h, t) == thread_get_priority(prio, t)

(* the donation of the caller's base priority instead of its priority *)
donate_base_to_holder(prio, h, t) ==
  [prio EXCEPT ![h] = base_priority[t]]

(* lock.c:137, "Donation!" *)
donate_to_holder(prio, h, t) ==
  [prio EXCEPT ![h] = thread_get_priority(prio, t)]

(* what the build can do at thread_current->priority with thread_current  *)
(* NULL: take a page fault (kernel panic), or carry on as if the walk had *)
(* ended                                                                  *)
NullDerefOutcomes == {"fault", "ignored"}

(* lock.c:124-137 with h the local variable holder: what the walk did and *)
(* the fields as the statements leave them                                 *)
donation(t, l, h) ==
  LET known == find_lock(l, priority_donor_locks[h])
      tr == IF known
              THEN [priority |-> priority, outcome |-> "return"]
              ELSE trickle_priority_donation(h, thread_get_priority(priority, t))
      lp == IF known
              THEN [lock_priority EXCEPT ![l] = reinvoke_lock_priority(tr.priority, h, t)]
              ELSE [lock_priority EXCEPT ![l] = donor_lock_priority(tr.priority, h, t)]
  IN [outcome |-> tr.outcome,
      walked |-> tr.priority,
      lock_waiting_on |-> IF known THEN lock_waiting_on
                          ELSE [lock_waiting_on EXCEPT ![t] = l],
      lock_priority |-> lp,
      priority_donor_locks |->
        IF known THEN priority_donor_locks
        ELSE [priority_donor_locks EXCEPT ![h] = list_insert_ordered(@, l, lp)],
      priority |-> donate_to_holder(tr.priority, h, t)]

(* lock.c:120-139, the branch for a lock that has a holder *)
acquire_contended(t, l) ==
  LET d == donation(t, l, holder[l])
      tr == [priority |-> d.walked, outcome |-> d.outcome]
      rest == /\ lock_waiting_on' = d.lock_waiting_on
              /\ lock_priority' = d.lock_priority
              /\ priority_donor_locks' = d.priority_donor_locks
              /\ priority' = d.priority
              /\ semaphore_down(t, l)
              /\ holder' = IF pc'[t] = "run" THEN [holder EXCEPT ![l] = t] ELSE holder
              /\ held' = IF pc'[t] = "run" THEN [held EXCEPT ![t] = @ \cup {l}] ELSE held
              /\ last' = <<"acquire_contended", t, l>>
              /\ UNCHANGED <<base_priority, panicked>>
  IN CASE tr.outcome = "return" -> rest
       [] tr.outcome = "loop" ->
            /\ priority' = tr.priority
            /\ pc' = [pc EXCEPT ![t] = "spin"]
            /\ arg' = [arg EXCEPT ![t] = l]
            /\ last' = <<"acquire_spin", t, l>>
            /\ UNCHANGED <<lockFields, base_priority, lock_waiting_on,
                           priority_donor_locks, held, panicked>>
       [] tr.outcome = "null" ->
            \E o \in NullDerefOutcomes :
              IF o = "fault"
                THEN /\ priority' = tr.priority
                     /\ panicked' = TRUE
                     /\ last' = <<"acquire_fault", t, l>>
                     /\ UNCHANGED <<lockFields, base_priority, lock_waiting_on,
                                    priority_donor_locks, pc, arg, held>>
                ELSE rest

(* lock.c:109-143, up to the return or the suspension in semaphore_down *)
acquire_call(t, l) ==
  /\ ~panicked
  /\ pc[t] = "run"
  /\ Representative(t, l)
  /\ calls' = calls + 1
  /\ IF lock_held_by_current_thread(t, l)
       THEN assertion_failure("acquire_assert", t, l)
       ELSE IF holder[l] = NULL
         THEN /\ acquire_free(t, l)
              /\ semaphore_down(t, l)
              /\ holder' = IF pc'[t] = "run" THEN [holder EXCEPT ![l] = t] ELSE holder
              /\ held' = IF pc'[t] = "run" THEN [held EXCEPT ![t] = @ \cup {l}] ELSE held
              /\ last' = <<"acquire_free", t, l>>
              /\ UNCHANGED <<base_priority, panicked>>
         ELSE acquire_contended(t, l)

(* a call of lock_acquire within the budget of calls *)
lock_acquire(t, l) ==
  /\ calls < MaxCalls
  /\ acquire_call(t, l)

(* a waiter that semaphore_up made ready runs again inside semaphore_down; *)
(* when it gets the semaphore, lock_acquire finishes with lock.c:141       *)
acquire_resume(t) ==
  /\ ~panicked
  /\ pc[t] = "woken"
  /\ LET l == arg[t]
     IN /\ semaphore_down(t, l)
        /\ holder' = IF pc'[t] = "run" THEN [holder EXCEPT ![l] = t] ELSE holder
        /\ held' = IF pc'[t] = "run" THEN [held EXCEPT ![t] = @ \cup {l}] ELSE held
        /\ last' = <<"acquire_resume", t, l>>
        /\ UNCHANGED <<lock_priority, threadFields, panicked, calls>>

(* lock_release leaving the holder in place *)
release_holder_kept(l) == holder

(* lock.c:200 *)
release_holder(l) == [holder EXCEPT ![l] = NULL]

(* lock.c:204-210 with prev the local variable of lock_release and t the *)
(* running thread                                                        *)
release_ledger(prev, t, l) ==
  LET donors == priority_donor_locks[prev] # <<>>
      list == IF donors
                THEN lock_remove_from_list(l, priority_donor_locks[t])
                ELSE priority_donor_locks[t]
  IN [priority_donor_locks |-> [priority_donor_locks EXCEPT ![t] = list],
      priority |-> IF donors
                     THEN thread_update_donated_priority(
                            thread_revoke_donated_priority(priority, t), t, list)
                     ELSE priority]

lock_release(t, l) ==
  /\ ~panicked
  /\ pc[t] = "run"
  /\ calls < MaxCalls
  /\ Representative(t, l)
  /\ calls' = calls + 1
  /\ IF ~lock_held_by_current_thread(t, l)
       THEN assertion_failure("release_assert", t, l)
       ELSE LET r == release_ledger(holder[l], t, l)
            IN /\ holder' = release_holder(l)
               /\ semaphore_up(l)
               /\ priority_donor_locks' = r.priority_donor_locks
               /\ priority' = r.priority
               /\ held' = [held EXCEPT ![t] = @ \ {l}]
               /\ last' = <<"release", t, l>>
               /\ UNCHANGED <<lock_priority, base_priority, lock_waiting_on,
                              arg, panicked>>

Next ==
  \/ \E t \in Threads, l \in Locks : lock_acquire(t, l) /\ UNCHANGED <<condvarFields, frame>>
  \/ \E t \in Threads : acquire_resume(t) /\ UNCHANGED <<condvarFields, frame>>
  \/ \E t \in Threads, l \in Locks : lock_release(t, l) /\ UNCHANGED <<condvarFields, frame>>

Spec == Init /\ [][Next]_vars

TypeOK ==
  /\ holder \in [Locks -> Threads \cup {NULL}]
  /\ sema_value \in [Locks -> 0..1]
  /\ pc \in [Threads -> {"run", "blocked", "woken", "spin"}]
  /\ \A t \in Threads : held[t] \subseteq Locks

----------------------------------------------------------------------------
(* the condition variable (threads/condvar.c; condvar.h declares it) *)

(* the wake policy with the comparison of condvar_priority_gt dropped *)
condvar_wake_front(waiters) == 1

(* the waiter condvar_signal wakes: the rule of the semaphore, with        *)
(* priorities read when the signal is given                                *)
condvar_wake_choice(waiters) == sema_wake_choice(waiters)

(* a thread inside condvar_wait: suspended, or signalled and about to take *)
(* the lock again                                                          *)
InCondvarWait(t) == cv_lock[t] # NULL

(* condvar_wait: release the lock, join the waiters, suspend *)
condvar_wait(t, l) ==
  /\ ~InCondvarWait(t)
  /\ \A u \in Threads : InCondvarWait(u) => cv_lock[u] = l
  /\ lock_release(t, l)
  /\ IF panicked'
       THEN UNCHANGED condvarFields
       ELSE /\ cv_waiters' = Append(cv_waiters, t)
            /\ cv_lock' = [cv_lock EXCEPT ![t] = l]

(* condvar_signal, called with the lock held: wake one waiter, none when   *)
(* there is none                                                           *)
condvar_signal(s, l) ==
  /\ ~panicked
  /\ pc[s] = "run"
  /\ ~InCondvarWait(s)
  /\ lock_held_by_current_thread(s, l)
  /\ \A u \in Threads : InCondvarWait(u) => cv_lock[u] = l
  /\ IF cv_waiters = <<>>
       THEN /\ last' = <<"signal", NULL, NULL>>
            /\ UNCHANGED cv_waiters
       ELSE LET i == condvar_wake_choice(cv_waiters)
            IN /\ last' = <<"signal", cv_waiters[i], i>>
               /\ cv_waiters' = SubSeq(cv_waiters, 1, i - 1)
                                  \o SubSeq(cv_waiters, i + 1, Len(cv_waiters))
  /\ UNCHANGED <<lockFields, threadFields, pc, arg, held, panicked, calls, cv_lock>>

(* a signalled waiter finishes condvar_wait with lock_acquire *)
condvar_reacquire(t) ==
  /\ InCondvarWait(t)
  /\ \A i \in 1..Len(cv_waiters) : cv_waiters[i] # t
  /\ lock_acquire(t, cv_lock[t])
  /\ cv_lock' = [cv_lock EXCEPT ![t] = NULL]
  /\ UNCHANGED cv_waiters

(* the lock the threads use with the condition variable *)
condvar_lock == CHOOSE l \in Locks : \A k \in Locks : l <= k

(* the threads use the condition variable as a monitor and keep to the     *)
(* preconditions: a thread takes the lock when it does not hold it, and    *)
(* gives it up in condvar_wait                                             *)
NextCondvar ==
  \/ \E t \in Threads :
       /\ ~InCondvarWait(t)
       /\ ~lock_held_by_current_thread(t, condvar_lock)
       /\ lock_acquire(t, condvar_lock)
       /\ UNCHANGED <<condvarFields, frame>>
  \/ \E t \in Threads : acquire_resume(t) /\ UNCHANGED <<condvarFields, frame>>
  \/ \E t \in Threads :
       /\ lock_held_by_current_thread(t, condvar_lock)
       /\ condvar_wait(t, condvar_lock)
       /\ UNCHANGED frame
  \/ \E s \in Threads : condvar_signal(s, condvar_lock) /\ UNCHANGED frame
  \/ \E t \in Threads : condvar_reacquire(t) /\ UNCHANGED frame

SpecCondvar == Init /\ [][NextCondvar]_vars

----------------------------------------------------------------------------
(* lock_acquire and lock_release under preemption.  lock.c never disables  *)
(* interrupts, so the timer interrupt can switch threads between two       *)
(* statements; semaphore_down and semaphore_up are atomic.  A call is cut  *)
(* after the holder is read (lock.c:122), after the donation statements    *)
(* (lock.c:138), after semaphore_down (lock.c:140), and after semaphore_up *)
(* (lock.c:201); frame keeps the interrupted call's local variables.       *)

(* lock.c:110-122: the assertions, the test of lock->holder and the read   *)
(* of the local variable holder                                            *)
preempt_acquire_begin(t, l) ==
  /\ ~panicked
  /\ pc[t] = "run"
  /\ frame[t].at = "idle"
  /\ calls < MaxCalls
  /\ Representative(t, l)
  /\ calls' = calls + 1
  /\ IF lock_held_by_current_thread(t, l)
       THEN assertion_failure("acquire_assert", t, l) /\ UNCHANGED frame
       ELSE /\ frame' = [frame EXCEPT ![t] =
                 IF holder[l] = NULL
                   THEN [at |-> "down", lock |-> l, holder |-> NULL]
                   ELSE [at |-> "donate", lock |-> l, holder |-> holder[l]]]
            /\ last' = <<"acquire_begin", t, l>>
            /\ UNCHANGED <<lockFields, threadFields, pc, arg, held, panicked>>

(* lock.c:124-138 *)
preempt_acquire_donate(t) ==
  /\ ~panicked
  /\ pc[t] = "run"
  /\ frame[t].at = "donate"
  /\ LET l == frame[t].lock
         d == donation(t, l, frame[t].holder)
         rest == /\ lock_waiting_on' = d.lock_waiting_on
                 /\ lock_priority' = d.lock_priority
                 /\ priority_donor_locks' = d.priority_donor_locks
                 /\ priority' = d.priority
                 /\ frame' = [frame EXCEPT ![t].at = "down"]
                 /\ last' = <<"acquire_donate", t, l>>
                 /\ UNCHANGED <<holder, sema_value, sema_waiters, base_priority,
                                pc, arg, held, panicked>>
     IN CASE d.outcome = "return" -> rest
          [] d.outcome = "loop" ->
               /\ priority' = d.walked
               /\ pc' = [pc EXCEPT ![t] = "spin"]
               /\ arg' = [arg EXCEPT ![t] = l]
               /\ last' = <<"acquire_spin", t, l>>
               /\ UNCHANGED <<lockFields, base_priority, lock_waiting_on,
                              priority_donor_locks, held, panicked, frame>>
          [] d.outcome = "null" ->
               \E o \in NullDerefOutcomes :
                 IF o = "fault"
                   THEN /\ priority' = d.walked
                        /\ panicked' = TRUE
                        /\ last' = <<"acquire_fault", t, l>>
                        /\ UNCHANGED <<lockFields, base_priority, lock_waiting_on,
                                       priority_donor_locks, pc, arg, held, frame>>
                   ELSE rest
  /\ UNCHANGED calls

(* lock.c:140, also for a waiter that semaphore_up made ready *)
preempt_acquire_down(t) ==
  /\ ~panicked
  /\ pc[t] \in {"run", "woken"}
  /\ frame[t].at = "down"
  /\ semaphore_down(t, frame[t].lock)
  /\ frame' = IF pc'[t] = "run" THEN [frame EXCEPT ![t].at = "finish"] ELSE frame
  /\ last' = <<"acquire_down", t, frame[t].lock>>
  /\ UNCHANGED <<holder, lock_priority, threadFields, held, panicked, calls>>

(* lock.c:141 *)
preempt_acquire_finish(t) ==
  /\ ~panicked
  /\ pc[t] = "run"
  /\ frame[t].at = "finish"
  /\ holder' = [holder EXCEPT ![frame[t].lock] = t]
  /\ held' = [held EXCEPT ![t] = @ \cup {frame[t].lock}]
  /\ frame' = [frame EXCEPT ![t] = NoFrame]
  /\ last' = <<"acquire_finish", t, frame[t].lock>>
  /\ UNCHANGED <<lock_priority, sema_value, sema_waiters, threadFields, pc, arg,
                 panicked, calls>>

(* lock.c:197-201 *)
preempt_release_begin(t, l) ==
  /\ ~panicked
  /\ pc[t] = "run"
  /\ frame[t].at = "idle"
  /\ calls < MaxCalls
  /\ Representative(t, l)
  /\ calls' = calls + 1
  /\ IF ~lock_held_by_current_thread(t, l)
       THEN assertion_failure("release_assert", t, l) /\ UNCHANGED frame
       ELSE /\ frame' = [frame EXCEPT ![t] =
                 [at |-> "ledger", lock |-> l, holder |-> holder[l]]]
            /\ holder' = release_holder(l)
            /\ semaphore_up(l)
            /\ held' = [held EXCEPT ![t] = @ \ {l}]
            /\ last' = <<"release_begin", t, l>>
            /\ UNCHANGED <<lock_priority, threadFields, arg, panicked>>

(* lock.c:204-211 *)
preempt_release_finish(t) ==
  /\ ~panicked
  /\ pc[t] = "run"
  /\ frame[t].at = "ledger"
  /\ LET r == release_ledger(frame[t].holder, t, frame[t].lock)
     IN /\ priority_donor_locks' = r.priority_donor_locks
        /\ priority' = r.priority
  /\ frame' = [frame EXCEPT ![t] = NoFrame]
  /\ last' = <<"release", t, frame[t].lock>>
  /\ UNCHANGED <<lockFields, base_priority, lock_waiting_on, pc, arg, held,
                 panicked, calls>>

NextPreempt ==
  \/ \E t \in Threads, l \in Locks :
       preempt_acquire_begin(t, l) /\ UNCHANGED condvarFields
  \/ \E t \in Threads : preempt_acquire_donate(t) /\ UNCHANGED condvarFields
  \/ \E t \in Threads : preempt_acquire_down(t) /\ UNCHANGED condvarFields
  \/ \E t \in Threads : preempt_acquire_finish(t) /\ UNCHANGED condvarFields
  \/ \E t \in Threads, l \in Locks :
       preempt_release_begin(t, l) /\ UNCHANGED condvarFields
  \/ \E t \in Threads : preempt_release_finish(t) /\ UNCHANGED condvarFields

SpecPreempt == Init /\ [][NextPreempt]_vars

----------------------------------------------------------------------------
(* Contention only: the threads call lock_acquire and nothing else.  Every *)
(* call takes a free lock, suspends its caller or stops the kernel, so the *)
(* runs end by themselves and need no budget of calls.                     *)
NextContention ==
  \E t \in Threads, l \in Locks :
    acquire_call(t, l) /\ UNCHANGED <<condvarFields, frame>>

SpecContention == Init /\ [][NextContention]_vars

----------------------------------------------------------------------------
(* vocabulary of the properties *)

(* the threads suspended in lock_acquire (l) *)
BlockedOn(l) == {t \in Threads : pc[t] = "blocked" /\ arg[t] = l}

(* the holder of l, the holder of the lock that holder is blocked on, ... *)
RECURSIVE Chain(_, _)
Chain(l, seen) ==
  IF l = NULL \/ holder[l] = NULL \/ holder[l] \in seen
    THEN seen
    ELSE LET h == holder[l]
         IN IF pc[h] = "blocked" THEN Chain(arg[h], seen \cup {h})
            ELSE seen \cup {h}

Occurrences(l, list) == Cardinality({i \in 1..Len(list) : list[i] = l})

LedgerMax(t) ==
  MaxOver(SeqToSet(priority_donor_locks[t]), lock_priority, base_priority[t])

----------------------------------------------------------------------------
(* C1: mutual exclusion. For every lock at most one thread is between the  *)
(* return of lock_acquire and its lock_release, and a non-NULL lock.holder *)
(* names that thread.                                                      *)
MutualExclusion ==
  \A l \in Locks :
    /\ Cardinality({t \in Threads : l \in held[t]}) <= 1
    /\ holder[l] # NULL => l \in held[holder[l]]

(* a waiter took the lock over while another thread still waits for it *)
WitnessMutualExclusion ==
  \E l \in Locks :
    /\ holder[l] # NULL
    /\ last = <<"acquire_resume", holder[l], l>>
    /\ BlockedOn(l) # {}

(* C2: priority invariant. Every thread's priority equals the maximum of   *)
(* its base priority and the priorities of the locks in its ledger (its    *)
(* base priority when the ledger is empty).                                *)
PriorityInvariant ==
  \A t \in Threads : priority[t] = LedgerMax(t)

(* C3: priority-inversion bound. The holder of a lock has a priority at    *)
(* least that of every thread blocked in lock_acquire on that lock.        *)
InversionBound ==
  \A l \in Locks : \A w \in BlockedOn(l) :
    holder[l] # NULL => priority[holder[l]] >= priority[w]

(* C4: single-hop donation. When a thread of priority p blocks on a lock   *)
(* whose holder has a lower priority, the holder has priority p when the   *)
(* caller suspends.                                                        *)
SingleHopDonation ==
  [][(calls' = calls + 1 /\ last'[1] = "acquire_contended") =>
       LET t == last'[2]
           l == last'[3]
       IN ( /\ pc'[t] = "blocked"
            /\ holder[l] # NULL
            /\ priority[holder[l]] < priority[t] )
          => priority'[holder[l]] = priority[t]]_vars

(* the second call of a run: the holder still had its base priority *)
WitnessSingleHopDonation ==
  \E t \in Threads, l \in Locks :
    /\ calls = 2
    /\ last = <<"acquire_contended", t, l>>
    /\ pc[t] = "blocked"
    /\ holder[l] # NULL
    /\ base_priority[holder[l]] < priority[t]
    /\ priority[holder[l]] = priority[t]

(* C5: transitive donation. After a thread of priority p has blocked on a  *)
(* lock, every thread on the chain of blocked holders that starts at the   *)
(* lock's holder has priority at least p.                                  *)
TransitiveDonation ==
  \A t \in Threads, l \in Locks :
    (last = <<"acquire_contended", t, l>> /\ pc[t] = "blocked")
      => \A c \in Chain(l, {}) : priority[c] >= priority[t]

(* C6: revoke to next donor. Right after lock_release the releasing        *)
(* thread's priority is the maximum of its base priority and the           *)
(* priorities of the contended locks left in its ledger.                   *)
RevokeToNextDonor ==
  \A t \in Threads, l \in Locks :
    last = <<"release", t, l>> => priority[t] = LedgerMax(t)

(* C7: no donation without contention. A lock_acquire that finds the lock  *)
(* free changes no priority, ledger, blocking lock or lock priority; it    *)
(* takes the semaphore and makes the caller the holder.                    *)
NoDonationWithoutContention ==
  [][calls' = calls + 1 =>
       LET t == last'[2]
           l == last'[3]
       IN /\ last'[1] \in {"acquire_contended", "acquire_spin", "acquire_fault"}
               => holder[l] # NULL
          /\ last'[1] = "acquire_free"
               => /\ holder[l] = NULL
                  /\ UNCHANGED <<priority, base_priority, lock_waiting_on,
                                 priority_donor_locks, lock_priority, sema_waiters>>
                  /\ holder' = [holder EXCEPT ![l] = t]
                  /\ sema_value[l] = 1
                  /\ sema_value' = [sema_value EXCEPT ![l] = 0]]_vars

(* a free lock was taken while some other thread carries a ledger *)
WitnessNoDonationWithoutContention ==
  \E t \in Threads, l \in Locks :
    /\ last = <<"acquire_free", t, l>>
    /\ holder[l] = t
    /\ \E u \in Threads \ {t} : priority_donor_locks[u] # <<>>

(* C8: every thread's priority is at least its base priority.              *)
EffectiveAtLeastBase ==
  \A t \in Threads : priority[t] >= base_priority[t]

(* C9: idempotent re-entry. When a further waiter blocks on a lock that is *)
(* already in the holder's ledger, the lock stays in the ledger once and   *)
(* its priority becomes the maximum of its old value and the waiter's      *)
(* priority.                                                               *)
IdempotentReentry ==
  [][\A t \in Threads, l \in Locks :
       ( /\ calls' = calls + 1
         /\ last' = <<"acquire_contended", t, l>>
         /\ holder[l] # NULL
         /\ find_lock(l, priority_donor_locks[holder[l]]) )
       => /\ Occurrences(l, priority_donor_locks'[holder[l]]) = 1
          /\ lock_priority'[l] = Max(lock_priority[l], priority[t])]_vars

(* C10: usage errors. lock_acquire by the holder and lock_release by a     *)
(* thread that is not the holder stop in a failed assertion and change no  *)
(* field of a lock, a thread or a semaphore: a call that fails its         *)
(* assertion panics with every field unchanged, and a call that gets past  *)
(* the assertion was made by a non-holder (lock_acquire) or by the holder  *)
(* (lock_release).                                                         *)
UsageErrorsFatal ==
  [][calls' = calls + 1 =>
       LET t == last'[2]
           l == last'[3]
       IN /\ last'[1] \in {"acquire_assert", "release_assert"}
               => (panicked' /\ UNCHANGED <<lockFields, threadFields>>)
          /\ last'[1] \in {"acquire_free", "acquire_contended",
                            "acquire_spin", "acquire_fault"}
               => holder[l] # t
          /\ last'[1] = "release" => holder[l] = t]_vars

(* the kernel stopped at the assertion of lock_acquire while locks were    *)
(* held and contended                                                      *)
WitnessUsageErrorsFatal ==
  /\ panicked
  /\ last[1] = "acquire_assert"
  /\ \E l \in Locks : holder[l] # NULL /\ BlockedOn(l) # {}

(* C11: wake order of the condition variable. condvar_signal wakes the     *)
(* waiter of highest priority, the earliest among equals, and removes only *)
(* it; two signals in a row wake in non-increasing priority order; a       *)
(* signal without waiters changes nothing.                                 *)
CondvarWakeOrder ==
  [][last'[1] = "signal" =>
       IF cv_waiters = <<>>
         THEN UNCHANGED <<cv_waiters, cv_lock, lockFields, threadFields, pc>>
         ELSE LET w == last'[2]
                  i == last'[3]
              IN /\ i \in 1..Len(cv_waiters)
                 /\ cv_waiters[i] = w
                 /\ \A k \in 1..Len(cv_waiters) :
                      priority[cv_waiters[k]] <= priority[w]
                 /\ \A k \in 1..(i - 1) : priority[cv_waiters[k]] < priority[w]
                 /\ cv_waiters' = SubSeq(cv_waiters, 1, i - 1)
                                    \o SubSeq(cv_waiters, i + 1, Len(cv_waiters))
                 /\ (last[1] = "signal" /\ last[2] # NULL)
                      => priority[last[2]] >= priority[w]]_vars

(* a signal woke a waiter that had arrived after one that still waits *)
WitnessCondvarWakeOrder ==
  /\ last[1] = "signal"
  /\ last[2] # NULL
  /\ last[3] > 1
  /\ cv_waiters # <<>>
  /\ priority[Head(cv_waiters)] < priority[last[2]]

(* a cycle of threads each suspended on a lock the next one holds; the     *)
(* caller of the last lock_acquire counts with the lock it asked for       *)
DeadlockCycle ==
  \/ \E t \in Threads : pc[t] = "blocked" /\ t \in Chain(arg[t], {})
  \/ last[2] # NULL /\ last[3] # NULL /\ last[2] \in Chain(last[3], {})

(* C12: chain-walk termination. Unless threads are in a deadlock cycle,    *)
(* the walk of trickle_priority_donation ends and meets only locks that    *)
(* have a holder: no lock_acquire is left looping in it or faults on a     *)
(* NULL holder.                                                            *)
ChainWalkTerminates ==
  last[1] \in {"acquire_spin", "acquire_fault"} => DeadlockCycle

(* C13: blocking-lock lifecycle. lock_waiting_on is the lock a thread is   *)
(* suspended on while it is suspended in lock_acquire, and NULL when the   *)
(* thread is not inside lock_acquire.                                      *)
BlockingLockLifecycle ==
  \A t \in Threads :
    /\ pc[t] = "blocked" => lock_waiting_on[t] = arg[t]
    /\ pc[t] = "run" => lock_waiting_on[t] = NULL
    /\ \A l \in Locks : holder[l] = t => lock_waiting_on[t] # l

(* no thread stands between two statements of lock_acquire or             *)
(* lock_release: each is outside the two functions or suspended            *)
Quiescent == \A t \in Threads : frame[t] = NoFrame \/ pc[t] = "blocked"

(* C14: ledger membership. Whenever no thread stands between two           *)
(* statements of a call, a lock is in at most one ledger and at most once, *)
(* and only in the ledger of its holder while a thread is blocked on it.   *)
LedgerMembership ==
  Quiescent =>
    \A l \in Locks :
      /\ Cardinality({t \in Threads : find_lock(l, priority_donor_locks[t])}) <= 1
      /\ \A t \in Threads :
           find_lock(l, priority_donor_locks[t])
             => /\ Occurrences(l, priority_donor_locks[t]) = 1
                /\ holder[l] = t
                /\ BlockedOn(l) # {}

(* C15: ledger order. Every ledger is sorted by non-increasing lock        *)
(* priority.                                                               *)
LedgerOrder ==
  \A t \in Threads :
    \A i \in 1..(Len(priority_donor_locks[t]) - 1) :
      lock_priority[priority_donor_locks[t][i]]
        >= lock_priority[priority_donor_locks[t][i + 1]]

(* C16: release ordering. At the moment semaphore_up makes a waiter of a   *)
(* lock ready, and at the moment a thread becomes the holder of a lock,    *)
(* the lock is in no other thread's ledger: lock_release has already taken *)
(* it out of the releasing thread's ledger.                                *)
ReleaseOrdering ==
  [][/\ \A w \in Threads :
          (pc[w] # "woken" /\ pc'[w] = "woken")
            => \A u \in Threads \ {w} : ~find_lock(arg'[w], priority_donor_locks'[u])
     /\ \A l \in Locks :
          (holder'[l] # holder[l] /\ holder'[l] # NULL)
            => \A u \in Threads \ {holder'[l]} :
                 ~find_lock(l, priority_donor_locks'[u])]_vars

(* C17: atomic bookkeeping under preemption. When lock_acquire runs its    *)
(* donation statements, the thread it read as holder still holds the lock. *)
AtomicBookkeeping ==
  [][\A t \in Threads :
       (frame[t].at = "donate" /\ frame'[t].at # "donate")
         => holder[frame[t].lock] = frame[t].holder]_vars

(* C18: donation never lowers a priority. A contended lock_acquire leaves  *)
(* every thread's priority at least what it was, and the holder's at the   *)
(* maximum of its old priority and the caller's.                           *)
DonationNeverLowers ==
  [][(calls' = calls + 1 /\ last'[1] \in {"acquire_contended", "acquire_spin", "acquire_fault"})
       => /\ \A u \in Threads : priority'[u] >= priority[u]
          /\ last'[1] = "acquire_contended"
               => priority'[holder[last'[3]]]
                    = Max(priority[holder[last'[3]]], priority[last'[2]])]_vars

(* C19: donation is temporary. A thread that holds no lock has its base    *)
(* priority.                                                               *)
DonationTemporary ==
  \A t \in Threads :
    (\A l \in Locks : holder[l] # t) => priority[t] = base_priority[t]

====
